---- MODULE Spec2Model ----
(***************************************************************************)
(* Model of the batch HTTP client of batchhttp (src/batchhttp/client.py):  *)
(* BatchClient's lifecycle (batch_request / batch / complete_batch /       *)
(* clear_batch), BatchRequest.construct and BatchRequest.handle_response,  *)
(* and the weakly held callbacks of the subrequests.                       *)
(*                                                                         *)
(* complete_batch is modelled in the steps its code takes (the length      *)
(* check, one as_message per subrequest, the POST, the response checks,    *)
(* one decode_response per part), because the referent of a weak callback  *)
(* can be collected between any two of them (DropCallback): the cyclic     *)
(* garbage collector runs on allocation, and callbacks run user code.      *)
(*                                                                         *)
(* Callbacks are named by the order in which the open batch first binds    *)
(* them: batch is called with a callback the batch already holds (one      *)
(* callback may serve several subrequests) or with a new one.              *)
(***************************************************************************)
EXTENDS Integers, Sequences, FiniteSets, TLC

\* ---------------------------------------------------------------- bounds
MaxRequests  == 2      \* most subrequests added to one batch
NumCallbacks == 2      \* distinct callback objects bound in one batch
MaxParts     == 2      \* most parts in one batch response

Callbacks == 1..NumCallbacks

\* ------------------------------------------------------- program constants
BATCH_STATUS == 207

NoEndpoint  == "None"
SomeEndpoint == "http://127.0.0.1:8000/"
Endpoints   == {NoEndpoint, SomeEndpoint}

HttpResponseType == "application/http-response"

\* The status lines the batch processor answers with in this model.
StatusLines == { <<200, "OK">>, <<BATCH_STATUS, "Multi-Status">>,
                 <<500, "Internal Server Error">> }

\* The Multipart-Request-ID header of a response part: absent, not an
\* integer literal, or an integer (rid).
PartIds   == 0..(MaxRequests + 1)

Part(ct, h, n) == [ctype |-> ct, idhdr |-> h, rid |-> n]

\* A part that is itself a multipart message, with one part in it: an
\* application/http-response part with the Multipart-Request-ID 1 (rid is
\* the ID of that leaf; the container has no such header).
NestedPart == Part("multipart/mixed", "missing", 1)

Parts ==
    {Part(HttpResponseType, "int", n) : n \in PartIds}
        \cup {Part(HttpResponseType, "missing", 0),
              Part(HttpResponseType, "invalid", 0),
              Part("text/plain", "int", 1)}

\* The sequences over S of length at most n.
SeqsUpTo(S, n) == UNION {[1..k -> S] : k \in 0..n}

NoResponse == [status |-> 0, reason |-> "", multipart |-> FALSE, parts |-> <<>>]

\* A batch response: its status line, whether its body parses as a MIME
\* multipart message, and the parts of that message.
Responses ==
    { [status |-> sl[1], reason |-> sl[2], multipart |-> TRUE, parts |-> ps] :
        sl \in StatusLines, ps \in SeqsUpTo(Parts, MaxParts) }
    \cup
    { [status |-> sl[1], reason |-> sl[2], multipart |-> FALSE, parts |-> <<>>] :
        sl \in StatusLines }
    \cup
    { [status |-> BATCH_STATUS, reason |-> "Multi-Status", multipart |-> TRUE, parts |-> ps] :
        ps \in {qs \in SeqsUpTo({NestedPart, Part(HttpResponseType, "int", 1)}, MaxParts) :
                    \E i \in 1..Len(qs) : qs[i] = NestedPart} }

\* What a user callback does when it is called.
Outcomes == {"return", "raise", "raise ReferenceError"}

VARIABLES
    endpoint,      \* BatchClient.endpoint
    hasBatch,      \* hasattr(self, 'batchrequest')
    requests,      \* BatchRequest.requests: the callback of each Request, in insertion order
    created,       \* number of distinct callbacks the batch has bound
    alive,         \* callbacks of the batch whose referent still exists
    pc,            \* where complete_batch is: "idle", "construct", "post", "dispatch"
    iter,          \* position of "for request in self.requests" in construct
    request_id,    \* construct's request_id
    msg,           \* Multipart-Request-IDs of the parts attached to the outbound message
    posted,        \* the call in progress (or the last call) made the batch POST
    response,      \* the batch response returned by the POST
    partIdx,       \* position of "for part in messages" in handle_response
    invoked,       \* callbacks called by the call in progress (or the last call)
    result,        \* how the last call of the client's interface ended
    lastBatch,     \* the requests list the last complete_batch worked on
    deadAtStart    \* positions of lastBatch whose callback was dead when complete_batch began

\* One Request and the agent it is rendered and decoded with
\* (Request.as_message, Request.decode_response), in detail.
VARIABLES
    http,          \* the agent: http.cache and http.authorizations
    reqinfo,       \* Request.reqinfo: the caller's own mapping, its headers dict included
    given,         \* the value of that mapping when the Request was made
    submsg,        \* the message as_message returned
    agentCalls,    \* calls of http.request made for this Request
    subresponse,   \* the status and body of the response part given to decode_response
    delivered,     \* the status and body the callback was called with
    raised         \* the exception that left as_message or decode_response, "" for none

clientVars == <<endpoint, hasBatch, requests, created, alive, pc, iter, request_id, msg, posted,
                response, partIdx, invoked, result, lastBatch, deadAtStart>>

requestVars == <<http, reqinfo, given, submsg, agentCalls, subresponse, delivered, raised>>

\* BatchRequest.process, in detail: the URL the batch POST is sent to.
VARIABLES
    process_endpoint,  \* the endpoint argument of process, as urlparse splits it
    processed,         \* what process did: "", "nothing" (nothing to send) or "POST"
    batch_url          \* process's batch_url, as urlparse splits it

processVars == <<process_endpoint, processed, batch_url>>

\* The batch proxy (src/batchhttp/batchproxy.py): the batch POSTs it is
\* answering, and the upstream request of each of their inner requests.
VARIABLES
    inbound,         \* per batch POST: the inbound request, as getChild leaves it
    batch_requests,  \* per batch POST: render's batch_requests, the inner request of each
    upstream,        \* per BatchRequest: where its upstream connection is
    transport,       \* the contents of each StringTransport
    reply            \* per batch POST: what was written to the inbound request's transport

proxyVars == <<inbound, batch_requests, upstream, transport, reply>>

\* The multipart codec (src/batchhttp/multipart.py): a list of inner
\* requests, the multipart message made of it, and what is parsed from it.
VARIABLES
    inner,           \* the inner requests given, each with its request ID
    wire,            \* MultipartHTTPMessage.as_string(): the parts, as written
    parsed           \* HTTPParser(wire): its requests, or the exception it raised

codecVars == <<inner, wire, parsed>>

vars == <<clientVars, requestVars, processVars, proxyVars, codecVars>>

\* What an action of one part of the model leaves alone: the other parts.
beyondClient  == <<requestVars, processVars, proxyVars, codecVars>>
beyondRequest == <<clientVars, processVars, proxyVars, codecVars>>
beyondProcess == <<clientVars, requestVars, proxyVars, codecVars>>
beyondProxy   == <<clientVars, requestVars, processVars, codecVars>>
beyondCodec   == <<clientVars, requestVars, processVars, proxyVars>>

Ret(op, exc, why) == [op |-> op, exc |-> exc, why |-> why, status |-> 0, reason |-> ""]

\* No cache (http.cache is None) and no authorizations: a new httplib2.Http,
\* with the connection table it made for itself.
NoCache == "None"
PlainHttp == [cache |-> NoCache, authorizations |-> FALSE, connections |-> "real"]

\* Python's None, for a body that is not given.
None == "None"

\* A dict of headers is a function from its keys; {} is the empty one.
EmptyDict == [k \in {} |-> ""]

NoRequest  == [uri |-> "", hasHeaders |-> FALSE, headers |-> EmptyDict, body |-> None]
NoMessage  == [id |-> 0, method |-> "", uri |-> "", headers |-> EmptyDict, body |-> ""]
NoDelivery == [status |-> 0, body |-> ""]

\* A URL as urlparse splits it: scheme, network location, path and query.
\* The path is the sequence of its segments, "/a/b" being <<"a", "b">>, "/"
\* being <<"">> and the empty path <<>>; abs says that it begins with "/".
Url(scheme, netloc, abs, path, query) ==
    [scheme |-> scheme, netloc |-> netloc, abs |-> abs, path |-> path, query |-> query]

NoUrl == Url("", "", FALSE, <<>>, "")

\* process has not been called.
NewProcess ==
    /\ process_endpoint = NoUrl
    /\ processed = ""
    /\ batch_url = NoUrl

\* No call of process is followed.
IdleProcess ==
    /\ process_endpoint = <<>>
    /\ processed = <<>>
    /\ batch_url = <<>>

\* The batch POSTs the proxy is given, each on a connection of its own.
Batches == {1, 2}

NoInbound == [method |-> "", received_headers |-> EmptyDict, parts |-> <<>>]
NoReply   == [code |-> 0, parts |-> <<>>]

\* The proxy has been given no request.
NewProxy ==
    /\ inbound = [b \in Batches |-> NoInbound]
    /\ batch_requests = [b \in Batches |-> <<>>]
    /\ upstream = [b \in Batches |-> <<>>]
    /\ transport = [t \in Batches \X (1..MaxRequests) |-> <<>>]
    /\ reply = [b \in Batches |-> NoReply]

\* There is no proxy.
IdleProxy ==
    /\ inbound = <<>>
    /\ batch_requests = <<>>
    /\ upstream = <<>>
    /\ transport = <<>>
    /\ reply = <<>>

\* No message is encoded or parsed.
IdleCodec ==
    /\ inner = <<>>
    /\ wire = <<>>
    /\ parsed = <<>>

\* The client as BatchClient.__init__ leaves it.
InitClient ==
    /\ endpoint \in Endpoints
    /\ hasBatch = FALSE
    /\ requests = <<>>
    /\ created = 0
    /\ alive = {}
    /\ pc = "idle"
    /\ iter = 0
    /\ request_id = 0
    /\ msg = <<>>
    /\ posted = FALSE
    /\ response = NoResponse
    /\ partIdx = 0
    /\ invoked = <<>>
    /\ result = Ret("init", "None", "")
    /\ lastBatch = <<>>
    /\ deadAtStart = {}

Init ==
    /\ InitClient
    /\ http = PlainHttp
    /\ reqinfo = NoRequest
    /\ given = NoRequest
    /\ submsg = NoMessage
    /\ agentCalls = 0
    /\ subresponse = NoDelivery
    /\ delivered = NoDelivery
    /\ raised = ""
    /\ IdleProcess
    /\ IdleProxy
    /\ IdleCodec

\* A new call of the interface starts: nothing posted, nothing invoked yet.
NewCall ==
    /\ iter' = 0
    /\ request_id' = 0
    /\ msg' = <<>>
    /\ posted' = FALSE
    /\ response' = NoResponse
    /\ partIdx' = 0
    /\ invoked' = <<>>
    /\ lastBatch' = <<>>
    /\ deadAtStart' = {}

\* The check of the weak reference left out: every callback taken for alive.
Alive_Unchecked(cb) == TRUE

\* Request.alive / WeakCallback.alive / WeaklyBoundMethod.alive
Alive(cb) == cb \in alive

\* BatchRequest.__len__: "[r for r in self.requests if r.alive()]"
RECURSIVE LiveOnes(_)
LiveOnes(rs) ==
    IF rs = <<>> THEN <<>>
    ELSE IF Alive(Head(rs)) THEN <<Head(rs)>> \o LiveOnes(Tail(rs))
         ELSE LiveOnes(Tail(rs))

\* The length as the number of all subrequests, dead ones included.
BatchLen_CountingDead(rs) == Len(rs)

\* BatchRequest.__len__
BatchLen(rs) == Len(LiveOnes(rs))

\* batch_request without the check for an open batch: the open batch is replaced.
batch_request_Replacing ==
    /\ pc = "idle"
    /\ NewCall
    /\ hasBatch' = TRUE
    /\ requests' = <<>>
    /\ created' = 0
    /\ alive' = {}
    /\ result' = Ret("batch_request", "None", "")
    /\ UNCHANGED <<endpoint, pc>>
    /\ UNCHANGED beyondClient

\* BatchClient.batch_request
batch_request ==
    /\ pc = "idle"
    /\ NewCall
    /\ IF hasBatch
       THEN /\ result' = Ret("batch_request", "BatchError", "AlreadyOpen")
            /\ UNCHANGED <<hasBatch, requests, created, alive>>
       ELSE /\ hasBatch' = TRUE
            /\ requests' = <<>>
            /\ created' = 0
            /\ alive' = {}
            /\ result' = Ret("batch_request", "None", "")
    /\ UNCHANGED <<endpoint, pc>>
    /\ UNCHANGED beyondClient

\* The callbacks a caller can pass to batch: a callable it still holds, which
\* is one the open batch has bound and that is alive, or a new one.
Passable(cb) ==
    IF hasBatch THEN Alive(cb) \/ cb = created + 1
    ELSE cb = 1

\* Request.__init__: the weak reference to the callback is made.
Bind(cb) ==
    IF cb = created + 1
    THEN created' = cb /\ alive' = alive \cup {cb}
    ELSE UNCHANGED <<created, alive>>

\* batch that opens a batch when there is none.
batch_Opening(cb) ==
    /\ pc = "idle"
    /\ Passable(cb)
    /\ NewCall
    /\ Len(requests) < MaxRequests
    /\ hasBatch' = TRUE
    /\ requests' = Append(requests, cb)
    /\ Bind(cb)
    /\ result' = Ret("batch", "None", "")
    /\ UNCHANGED <<endpoint, pc>>
    /\ UNCHANGED beyondClient

\* BatchClient.batch -> BatchRequest.add
batch(cb) ==
    /\ pc = "idle"
    /\ Passable(cb)
    /\ NewCall
    /\ IF ~hasBatch
       THEN /\ result' = Ret("batch", "BatchError", "NotOpen")
            /\ UNCHANGED <<hasBatch, requests, created, alive>>
       ELSE /\ Len(requests) < MaxRequests
            /\ requests' = Append(requests, cb)
            /\ Bind(cb)
            /\ result' = Ret("batch", "None", "")
            /\ UNCHANGED hasBatch
    /\ UNCHANGED <<endpoint, pc>>
    /\ UNCHANGED beyondClient

\* BatchClient.clear_batch: which way the try went, "del self.batchrequest"
\* or "except AttributeError: pass".
Cleared == IF hasBatch THEN "Deleted" ELSE "AlreadyCleared"

\* clear_batch that leaves the batch in place.
clear_batch_Keeping ==
    /\ pc = "idle"
    /\ NewCall
    /\ result' = Ret("clear_batch", "None", Cleared)
    /\ UNCHANGED <<endpoint, hasBatch, requests, created, alive, pc>>
    /\ UNCHANGED beyondClient

\* BatchClient.clear_batch
clear_batch ==
    /\ pc = "idle"
    /\ NewCall
    /\ hasBatch' = FALSE
    /\ requests' = <<>>
    /\ result' = Ret("clear_batch", "None", Cleared)
    /\ UNCHANGED <<endpoint, created, alive, pc>>
    /\ UNCHANGED beyondClient

\* The referent of a weak callback of the batch is collected.
DropCallback(cb) ==
    /\ hasBatch
    /\ Alive(cb)
    /\ alive' = alive \ {cb}
    /\ UNCHANGED <<endpoint, hasBatch, requests, created, pc, iter, request_id, msg, posted,
                   response, partIdx, invoked, result, lastBatch, deadAtStart>>
    /\ UNCHANGED beyondClient

\* complete_batch without the endpoint check.
EndpointMissing_Unchecked == FALSE

\* BatchClient.complete_batch: "if self.endpoint is None"
EndpointMissing == endpoint = NoEndpoint

\* as_message without the alive check: the part of a dead subrequest is attached.
Attach_Always(m, cb, id) == Append(m, id)

\* The part numbered by its place in the outbound message.
Attach_Renumbered(m, cb, id) == IF Alive(cb) THEN Append(m, Len(m) + 1) ELSE m

\* BatchRequest.construct with Request.as_message: the part of a subrequest is
\* attached under the current request_id unless its callback is dead.
Attach(m, cb, id) == IF Alive(cb) THEN Append(m, id) ELSE m

\* request_id incremented in the else branch only: dense numbering of the parts.
NextRequestId_Dense(id, cb) == IF Alive(cb) THEN id + 1 ELSE id

\* BatchRequest.construct: "request_id += 1", after the try/except/else
NextRequestId(id, cb) == id + 1

\* Any status below 400 taken for a batch response.
IsBatchStatus_AnySuccess(st) == st < 400

\* BatchRequest.handle_response: "if response.status != 207"
IsBatchStatus(st) == st = BATCH_STATUS

\* The index without the "- 1".
Lookup_NoOffset(rid, n) ==
    LET j == rid
    IN  IF j >= 0 /\ j < n THEN j + 1
        ELSE IF j < 0 /\ j >= 0 - n THEN n + j + 1
        ELSE 0

\* BatchRequest.handle_response: "self.requests[request_id-1]", a Python list
\* index: 0..n-1 from the front, -1..-n from the back, IndexError otherwise.
\* The result is the 1-based position of the Request, or 0 for IndexError.
Lookup(rid, n) ==
    LET j == rid - 1
    IN  IF j >= 0 /\ j < n THEN j + 1
        ELSE IF j < 0 /\ j >= 0 - n THEN n + j + 1
        ELSE 0

\* BatchClient.complete_batch: "finally: del self.batchrequest", and the call
\* returns or raises.
Finish(exc, why, st, rs) ==
    /\ hasBatch' = FALSE
    /\ requests' = <<>>
    /\ pc' = "idle"
    /\ result' = [op |-> "complete_batch", exc |-> exc, why |-> why,
                  status |-> st, reason |-> rs]

\* BatchClient.complete_batch, up to the length check of construct
complete_batch ==
    /\ pc = "idle"
    /\ msg' = <<>>
    /\ posted' = FALSE
    /\ response' = NoResponse
    /\ partIdx' = 0
    /\ invoked' = <<>>
    /\ IF ~hasBatch
       THEN /\ result' = Ret("complete_batch", "BatchError", "NotOpen")
            /\ lastBatch' = <<>>
            /\ deadAtStart' = {}
            /\ iter' = 0
            /\ request_id' = 0
            /\ UNCHANGED <<hasBatch, requests, pc>>
       ELSE IF EndpointMissing
       THEN /\ result' = Ret("complete_batch", "BatchError", "NoEndpoint")
            /\ lastBatch' = <<>>
            /\ deadAtStart' = {}
            /\ iter' = 0
            /\ request_id' = 0
            /\ UNCHANGED <<hasBatch, requests, pc>>
       ELSE /\ lastBatch' = requests
            /\ deadAtStart' = {i \in 1..Len(requests) : ~Alive(requests[i])}
            /\ IF BatchLen(requests) = 0
               THEN \* construct returns (None, None): process sends nothing
                    /\ iter' = 0
                    /\ request_id' = 0
                    /\ Finish("None", "", 0, "")
               ELSE /\ iter' = 1
                    /\ request_id' = 1
                    /\ pc' = "construct"
                    /\ result' = Ret("complete_batch", "pending", "")
                    /\ UNCHANGED <<hasBatch, requests>>
    /\ UNCHANGED <<endpoint, created, alive>>
    /\ UNCHANGED beyondClient

\* One turn of construct's loop: Request.as_message for the next subrequest
as_message ==
    /\ pc = "construct"
    /\ iter <= Len(requests)
    /\ msg' = Attach(msg, requests[iter], request_id)
    /\ request_id' = NextRequestId(request_id, requests[iter])
    /\ iter' = iter + 1
    /\ UNCHANGED <<endpoint, hasBatch, requests, created, alive, pc, posted, response, partIdx,
                   invoked, result, lastBatch, deadAtStart>>
    /\ UNCHANGED beyondClient

\* process dispatching an answer for the first part without making the POST.
post_Unsent ==
    /\ pc = "construct"
    /\ iter > Len(requests)
    /\ response' = [status |-> BATCH_STATUS, reason |-> "Multi-Status", multipart |-> TRUE,
                    parts |-> <<Part(HttpResponseType, "int", 1)>>]
    /\ partIdx' = 1
    /\ pc' = "dispatch"
    /\ UNCHANGED <<endpoint, hasBatch, requests, created, alive, iter, request_id, msg, posted,
                   invoked, result, lastBatch, deadAtStart>>
    /\ UNCHANGED beyondClient

\* BatchRequest.process: construct returned the headers (always with
\* accept-encoding) and the body (always with the preamble and the boundary
\* lines), so "if headers and body" holds and the POST is made.
post ==
    /\ pc = "construct"
    /\ iter > Len(requests)
    /\ posted' = TRUE
    /\ pc' = "post"
    /\ UNCHANGED <<endpoint, hasBatch, requests, created, alive, iter, request_id, msg, response,
                   partIdx, invoked, result, lastBatch, deadAtStart>>
    /\ UNCHANGED beyondClient

\* http.request raises (no connection, ...): the exception leaves complete_batch
request_raises ==
    /\ pc = "post"
    /\ Finish("HttpError", "", 0, "")
    /\ UNCHANGED <<endpoint, created, alive, iter, request_id, msg, posted, response, partIdx,
                   invoked, lastBatch, deadAtStart>>
    /\ UNCHANGED beyondClient

\* http.request returns r; BatchRequest.handle_response up to its loop
handle_response(r) ==
    /\ pc = "post"
    /\ response' = r
    /\ partIdx' = 1
    /\ IF ~IsBatchStatus(r.status)
       THEN Finish("NonBatchResponseError", "", r.status, r.reason)
       ELSE IF ~r.multipart
       THEN Finish("BatchError", "NotMultipart", 0, "")
       ELSE IF r.parts = <<>>
       THEN Finish("None", "", 0, "")
       ELSE /\ pc' = "dispatch"
            /\ UNCHANGED <<hasBatch, requests, result>>
    /\ UNCHANGED <<endpoint, created, alive, iter, request_id, msg, posted, invoked,
                   lastBatch, deadAtStart>>
    /\ UNCHANGED beyondClient

\* The loop of handle_response goes on to the next part, or ends.
NextPart ==
    /\ partIdx' = partIdx + 1
    /\ IF partIdx = Len(response.parts)
       THEN Finish("None", "", 0, "")
       ELSE UNCHANGED <<hasBatch, requests, pc, result>>

\* The loop of handle_response is left by an exception.
Raise(exc, why) ==
    /\ partIdx' = partIdx
    /\ Finish(exc, why, 0, "")

\* The parts taken from the last to the first.
PartAt_Reversed(r, i) == r.parts[Len(r.parts) + 1 - i]

\* BatchRequest.handle_response: "for part in messages", the i-th part of
\* the response in the order of its body.
PartAt(r, i) == r.parts[i]

\* Every exception of a callback passed over, as ReferenceError is.
AfterCallback_Swallowing(out) == NextPart

\* Every exception of a callback leaving the loop, ReferenceError included.
AfterCallback_Propagating(out) ==
    IF out = "return" THEN NextPart ELSE Raise(out, "")

\* BatchRequest.handle_response: "try: subresponse.decode_response(http, part)
\* except ReferenceError: pass". The callback returned, or raised a
\* ReferenceError that is passed over, or raised something else, which
\* leaves the loop and complete_batch.
AfterCallback(out) ==
    IF out = "raise" THEN Raise("UserException", "") ELSE NextPart

\* One turn of handle_response's loop, with Request.decode_response
decode_response ==
    /\ pc = "dispatch"
    /\ LET part == PartAt(response, partIdx)
           idx  == Lookup(part.rid, Len(requests))
       IN  \/ /\ part.ctype # HttpResponseType
              /\ Raise("BatchError", "BadPartType")
              /\ UNCHANGED invoked
           \/ /\ part.ctype = HttpResponseType
              /\ part.idhdr = "missing"
              \* part['Multipart-Request-ID'] is None, and int(None) is a TypeError
              /\ Raise("TypeError", "")
              /\ UNCHANGED invoked
           \/ /\ part.ctype = HttpResponseType
              /\ part.idhdr = "invalid"
              /\ Raise("BatchError", "InvalidRequestId")
              /\ UNCHANGED invoked
           \/ /\ part.ctype = HttpResponseType
              /\ part.idhdr = "int"
              /\ idx = 0
              /\ Raise("IndexError", "")
              /\ UNCHANGED invoked
           \/ /\ part.ctype = HttpResponseType
              /\ part.idhdr = "int"
              /\ idx # 0
              /\ ~Alive(requests[idx])
              \* decode_response raises ReferenceError, which is passed over
              /\ NextPart
              /\ UNCHANGED invoked
           \/ /\ part.ctype = HttpResponseType
              /\ part.idhdr = "int"
              /\ idx # 0
              /\ Alive(requests[idx])
              /\ \E out \in Outcomes :
                    /\ invoked' = Append(invoked,
                          [pos |-> partIdx, rid |-> part.rid, idx |-> idx,
                           cb |-> requests[idx], outcome |-> out])
                    /\ AfterCallback(out)
    /\ UNCHANGED <<endpoint, created, alive, iter, request_id, msg, posted, response,
                   lastBatch, deadAtStart>>
    /\ UNCHANGED beyondClient

\* BatchClient.__enter__: "return self.batchrequest", an AttributeError when
\* no batch is open.
__enter__ ==
    /\ pc = "idle"
    /\ NewCall
    /\ result' = IF hasBatch THEN Ret("__enter__", "None", "")
                 ELSE Ret("__enter__", "AttributeError", "")
    /\ UNCHANGED <<endpoint, hasBatch, requests, created, alive, pc>>
    /\ UNCHANGED beyondClient

\* The exc_info the with statement passes to __exit__: three None when the
\* block ended normally, otherwise the type, the value and the traceback of the
\* exception that left the block.
NoException   == <<"None", "None", "None">>
SomeException == <<"Exception", "value", "traceback">>
ExcInfos      == {NoException, SomeException}

\* __exit__ with the test the other way round.
IsException_Inverted(exc_info) == \E i \in DOMAIN exc_info : exc_info[i] = "None"

\* BatchClient.__exit__: "if None not in exc_info"
IsException(exc_info) == \A i \in DOMAIN exc_info : exc_info[i] # "None"

\* BatchClient.__exit__. With an exception it calls clear_batch and returns
\* None, so the with statement raises the exception of the block again;
\* without one it calls complete_batch, whose exceptions are its own.
__exit__(exc_info) ==
    IF IsException(exc_info)
    THEN /\ pc = "idle"
         /\ NewCall
         /\ hasBatch' = FALSE
         /\ requests' = <<>>
         /\ result' = Ret("__exit__", exc_info[1], Cleared)
         /\ UNCHANGED <<endpoint, created, alive, pc>>
         /\ UNCHANGED beyondClient
    ELSE complete_batch

\* BatchClient.batch called by user code while complete_batch runs:
\* self.batchrequest is still set (it is deleted in the finally), so the
\* hasattr check passes and BatchRequest.add appends the new Request.
AddInCallback(cb) ==
    /\ requests' = Append(requests, cb)
    /\ Bind(cb)

\* One turn of handle_response's loop in which the callback, before it
\* returns, adds a subrequest with BatchClient.batch (callback cb). After the
\* last part the finally of complete_batch deletes the batch with whatever
\* was added, which is the turn of decode_response with a callback that
\* returns.
decode_response_adding(cb) ==
    /\ pc = "dispatch"
    /\ partIdx < Len(response.parts)
    /\ Len(requests) < MaxRequests
    /\ Passable(cb)
    /\ LET part == PartAt(response, partIdx)
           idx  == Lookup(part.rid, Len(requests))
       IN  /\ part.ctype = HttpResponseType
           /\ part.idhdr = "int"
           /\ idx # 0
           /\ Alive(requests[idx])
           /\ invoked' = Append(invoked,
                  [pos |-> partIdx, rid |-> part.rid, idx |-> idx,
                   cb |-> requests[idx], outcome |-> "batch"])
    /\ AddInCallback(cb)
    /\ partIdx' = partIdx + 1
    /\ UNCHANGED <<endpoint, hasBatch, pc, iter, request_id, msg, posted, response,
                   result, lastBatch, deadAtStart>>
    /\ UNCHANGED beyondClient

\* ------------------------------------------------- one Request, in detail
\* The URIs of the subrequests of this model.
URIs == {"http://example.com/moose", "http://127.0.0.1:8000/goose"}

\* Request.as_message: "parts = urlparse(url); host = parts[1]"
Authority(url) ==
    CASE url = "http://example.com/moose"    -> "example.com"
      [] url = "http://127.0.0.1:8000/goose" -> "127.0.0.1:8000"

\* The header names a caller gives, as written by the caller: dict keys are
\* case-sensitive, header names are not.
HeaderNames == {"host", "Host", "accept-encoding", "Accept-Encoding", "accept"}

\* str.lower() on a header name
Lower(k) ==
    CASE k = "Host"            -> "host"
      [] k = "Accept-Encoding" -> "accept-encoding"
      [] OTHER                 -> k

\* The value a caller gives for a header.
CallerValue(k) ==
    CASE Lower(k) = "host"            -> "other.example"
      [] Lower(k) = "accept-encoding" -> "gzip"
      [] OTHER                        -> "*/*"

HeaderMaps == {[k \in K |-> CallerValue(k)] : K \in SUBSET HeaderNames}

\* The reqinfo mappings passed to batch: 'uri', with or without 'headers'
\* and 'body' (no 'method': the subrequests are GETs).
Reqinfos ==
    { [uri |-> u, hasHeaders |-> TRUE, headers |-> h, body |-> b] :
        u \in URIs, h \in HeaderMaps, b \in {None, "data"} }
    \cup
    { [uri |-> u, hasHeaders |-> FALSE, headers |-> EmptyDict, body |-> b] :
        u \in URIs, b \in {None, "data"} }

\* The agent's cache for the URI of the subrequest: no cache at all, a cache
\* without an entry, with an entry that has to be validated, with an entry
\* fresh enough to be served without a request.
CacheStates == {NoCache, "miss", "stale", "fresh"}
Https == [cache : CacheStates, authorizations : BOOLEAN, connections : {"real"}]

CachedBody == "{\"name\": \"Potatoshop\"}"
CachedEtag == "7"
NOT_MODIFIED == 304

\* dict: "d[k] = v"
Put(d, k, v) == [x \in (DOMAIN d) \cup {k} |-> IF x = k THEN v ELSE d[x]]

\* "if http.cache is not None or http.authorizations"
UsesAgent(h) == h.cache # NoCache \/ h.authorizations

\* _update_headers_from_cache: http.request(**objreq) got as far as the
\* connection, where CaptureHTTPConnection.request raises StopCharade. A
\* fresh cache entry is answered by the agent without a connection.
Captured(h) == UsesAgent(h) /\ h.cache # "fresh"

\* The headers the agent hands to the connection: the caller's with the
\* names in lower case, its user-agent, the validator of a cache entry and
\* the credentials of an authorization. Names that differ only in case
\* fall together; in this model those are names as_message overwrites.
AgentHeaders(h, d) ==
    LET norm == [k \in {Lower(x) : x \in DOMAIN d} |->
                    d[CHOOSE x \in DOMAIN d : Lower(x) = k]]
        ua   == Put(norm, "user-agent", "Python-httplib2")
        inm  == IF h.cache = "stale" THEN Put(ua, "if-none-match", CachedEtag) ELSE ua
    IN  IF h.authorizations THEN Put(inm, "authorization", "credentials") ELSE inm

\* Request._update_headers_from_cache: the headers and the body to send, and
\* whether the headers dict returned is the caller's own object
\* (objreq.get('headers', {}) is the caller's dict when the key is there, a
\* new dict when it is not; conn.headers is a dict of the agent).
_update_headers_from_cache(h, objreq) ==
    IF Captured(h)
    THEN [headers |-> AgentHeaders(h, objreq.headers), body |-> objreq.body, own |-> FALSE]
    ELSE [headers |-> objreq.headers, body |-> objreq.body, own |-> objreq.hasHeaders]

\* Request.as_message: "headers['host'] = host" and
\* "headers['accept-encoding'] = 'identity'"
ForceHeaders(d, url) ==
    Put(Put(d, "host", Authority(url)), "accept-encoding", "identity")

\* Response status left as the agent returned it.
FixStatus_Kept(st) == st

\* Request._update_response_from_cache: "if response.status == 304:
\* response.status = 200"
FixStatus(st) == IF st = NOT_MODIFIED THEN 200 ELSE st

\* What http.request(**self.reqinfo) returns when the connection hands it
\* the subresponse: the agent's answer from a fresh entry; for a 304 and an
\* entry to validate, the cached body under the entry's headers with the
\* status the agent's version leaves (the 304 written through, or 200);
\* otherwise the subresponse itself.
AgentResponses(h, sub) ==
    IF h.cache = "fresh"
    THEN {[status |-> 200, body |-> CachedBody]}
    ELSE IF h.cache = "stale" /\ sub.status = NOT_MODIFIED
    THEN {[status |-> st, body |-> CachedBody] : st \in {NOT_MODIFIED, 200}}
    ELSE {sub}

\* Request._update_response_from_cache
_update_response_from_cache(h, sub) ==
    IF UsesAgent(h)
    THEN {[r EXCEPT !.status = FixStatus(r.status)] : r \in AgentResponses(h, sub)}
    ELSE {sub}

\* Request.__init__: "self.reqinfo = reqinfo", the caller's mapping itself
Request__init__(ri) ==
    /\ reqinfo = NoRequest
    /\ reqinfo' = ri
    /\ given' = ri
    /\ UNCHANGED <<http, submsg, agentCalls, subresponse, delivered, raised>>
    /\ UNCHANGED beyondRequest

\* The put-back done on a return only.
put_back_OnReturn(h, real_connections, exc) ==
    IF exc = "" THEN [h EXCEPT !.connections = real_connections] ELSE h

\* _update_headers_from_cache and _update_response_from_cache: "finally:
\* http.connections = real_connections", for the agent h as the try block
\* left it, by a return (exc is "") or by the exception exc.
put_back(h, real_connections, exc) == [h EXCEPT !.connections = real_connections]

\* Request.as_message for a live callback. With a cache or authorizations
\* the agent's http.request runs between "http.connections = conns" and the
\* finally; fault says that it raises an exception of its own (no
\* StopCharade), which leaves as_message.
Request_as_message(id, fault) ==
    /\ reqinfo # NoRequest
    /\ submsg = NoMessage
    /\ raised = ""
    /\ fault => UsesAgent(http)
    /\ LET upd     == _update_headers_from_cache(http, reqinfo)
           headers == ForceHeaders(upd.headers, reqinfo.uri)
           exc     == IF fault THEN "AgentError" ELSE ""
       IN  /\ IF fault
              THEN UNCHANGED <<submsg, reqinfo>>
              ELSE /\ submsg' = [id |-> id, method |-> "GET", uri |-> reqinfo.uri,
                                 headers |-> headers,
                                 body |-> IF upd.body = None THEN "" ELSE upd.body]
                   /\ reqinfo' = IF upd.own THEN [reqinfo EXCEPT !.headers = headers]
                                 ELSE reqinfo
           /\ raised' = exc
           /\ http' = IF UsesAgent(http)
                      THEN put_back([http EXCEPT !.connections = "CaptureConnections"],
                                    http.connections, exc)
                      ELSE http
    /\ agentCalls' = agentCalls + (IF UsesAgent(http) THEN 1 ELSE 0)
    /\ UNCHANGED <<given, subresponse, delivered>>
    /\ UNCHANGED beyondRequest

\* The first line of the payload of a response part, as
\* status_line.split(' ') gives it: a status line, a status line without
\* the HTTP version, the line of an empty payload, a status line without a
\* status code and one whose second word is not a number.
PartStatusLines ==
    { <<"HTTP/1.1", "200", "OK">>, <<"HTTP/1.1", "304", "Unchanged">>,
      <<"HTTP/1.1", "404", "Missing">>, <<"200", "OK">>,
      <<"">>, <<"HTTP/1.1">>, <<"HTTP/1.1", "OK">> }

\* Python's int() of a string: the number, or a ValueError.
int(word) ==
    CASE word = "200" -> [error |-> "", value |-> 200]
      [] word = "304" -> [error |-> "", value |-> NOT_MODIFIED]
      [] word = "404" -> [error |-> "", value |-> 404]
      [] OTHER        -> [error |-> "ValueError", value |-> 0]

\* Request.decode_response: "if status_line.startswith('HTTP/'): status_code
\* = status_line.split(' ')[1] else: status_code = status_line.split(' ')[0]"
\* and "int(status_code)"; the index raises IndexError for a list of one.
status_code(words) ==
    IF words[1] = "HTTP/1.1"
    THEN IF Len(words) < 2 THEN [error |-> "IndexError", value |-> 0] ELSE int(words[2])
    ELSE int(words[1])

\* Request.decode_response for a live callback and a part whose payload
\* begins with status_line and has the body given. With a cache or
\* authorizations the agent's http.request runs between "http.connections =
\* fc" and the finally; fault says that it raises.
Request_decode_response(status_line, body, fault) ==
    /\ submsg # NoMessage
    /\ delivered = NoDelivery
    /\ raised = ""
    /\ fault => UsesAgent(http)
    /\ LET code == status_code(status_line)
           sub  == [status |-> code.value, body |-> body]
           exc  == IF fault THEN "AgentError" ELSE ""
       IN  /\ subresponse' = sub
           /\ IF code.error # ""
              THEN /\ raised' = code.error
                   /\ UNCHANGED <<http, delivered, agentCalls>>
              ELSE /\ raised' = exc
                   /\ IF fault THEN UNCHANGED delivered
                      ELSE delivered' \in _update_response_from_cache(http, sub)
                   /\ http' = IF UsesAgent(http)
                              THEN put_back([http EXCEPT !.connections = "HandoffConnections"],
                                            http.connections, exc)
                              ELSE http
                   /\ agentCalls' = agentCalls + (IF UsesAgent(http) THEN 1 ELSE 0)
    /\ UNCHANGED <<reqinfo, given, submsg>>
    /\ UNCHANGED beyondRequest

InitRequest ==
    /\ InitClient
    /\ http \in Https
    /\ reqinfo = NoRequest
    /\ given = NoRequest
    /\ submsg = NoMessage
    /\ agentCalls = 0
    /\ subresponse = NoDelivery
    /\ delivered = NoDelivery
    /\ raised = ""
    /\ IdleProcess
    /\ IdleProxy
    /\ IdleCodec

NextRequest ==
    \/ \E ri \in Reqinfos : Request__init__(ri)
    \/ \E id \in 1..MaxRequests, fault \in BOOLEAN : Request_as_message(id, fault)
    \/ \E status_line \in PartStatusLines, body \in {"", "new"}, fault \in BOOLEAN :
          Request_decode_response(status_line, body, fault)

SpecRequest == InitRequest /\ [][NextRequest]_vars

\* ------------------------------------- BatchRequest.process, in detail
\* The endpoints a client is configured with: http and https URLs of a
\* host, with and without a path and a query.
EndpointSchemes == {"http", "https"}
EndpointNetlocs == {"127.0.0.1:8000", "example.com", "h"}
EndpointPaths   == { [abs |-> FALSE, path |-> <<>>],
                     [abs |-> TRUE,  path |-> <<"">>],
                     [abs |-> TRUE,  path |-> <<"batch-processor">>],
                     [abs |-> TRUE,  path |-> <<"a", "b">>],
                     [abs |-> TRUE,  path |-> <<"a", "">>] }
EndpointQueries == {"", "x=1"}

EndpointUrls ==
    { Url(s, n, p.abs, p.path, q) :
        s \in EndpointSchemes, n \in EndpointNetlocs, p \in EndpointPaths,
        q \in EndpointQueries }

\* The reference 'batch-processor', relative to the directory of the endpoint.
BatchProcessor_Relative == Url("", "", FALSE, <<"batch-processor">>, "")

\* BatchRequest.process: the reference '/batch-processor'
BatchProcessor == Url("", "", TRUE, <<"batch-processor">>, "")

\* "bpath.split('/')[:-1]": the segments of a path but the last
Directory(path) == IF path = <<>> THEN <<>> ELSE SubSeq(path, 1, Len(path) - 1)

\* urlparse.urljoin(base, url) for a base with a scheme that uses relative
\* references and a network location (http, https), and paths without "."
\* and ".." segments
urljoin(base, url) ==
    IF url.scheme # "" /\ url.scheme # base.scheme
    THEN url
    ELSE IF url.netloc # ""
    THEN [url EXCEPT !.scheme = base.scheme]
    ELSE IF url.abs
    THEN Url(base.scheme, base.netloc, TRUE, url.path, url.query)
    ELSE IF url.path = <<>>
    THEN [base EXCEPT !.query = IF url.query = "" THEN base.query ELSE url.query]
    ELSE Url(base.scheme, base.netloc, TRUE, Directory(base.path) \o url.path, url.query)

\* BatchRequest.process(http, endpoint): construct returned (None, None) for
\* a batch with nothing to send, or the headers and the body (sending) and
\* then the POST is made to batch_url.
process(e, sending) ==
    /\ processed = ""
    /\ process_endpoint' = e
    /\ IF sending
       THEN /\ batch_url' = urljoin(e, BatchProcessor)
            /\ processed' = "POST"
       ELSE /\ batch_url' = NoUrl
            /\ processed' = "nothing"
    /\ UNCHANGED beyondProcess

InitProcess ==
    /\ InitClient
    /\ http = PlainHttp
    /\ reqinfo = NoRequest
    /\ given = NoRequest
    /\ submsg = NoMessage
    /\ agentCalls = 0
    /\ subresponse = NoDelivery
    /\ delivered = NoDelivery
    /\ raised = ""
    /\ NewProcess
    /\ IdleProxy
    /\ IdleCodec

NextProcess == \E e \in EndpointUrls, sending \in BOOLEAN : process(e, sending)

SpecProcess == InitProcess /\ [][NextProcess]_vars

\* ------------------------------------------------------ the batch proxy
\* The inner requests of an inbound batch, as its parts carry them: with
\* the IDs 1..n in order and a Host header only, or with IDs that are not
\* contiguous and not in order and with hop-by-hop headers.
InboundKinds == {"ordered", "scattered"}

InnerId(kind, i, n) == IF kind = "ordered" THEN i ELSE 2 * (n - i) + 3

InnerHeaders(kind) ==
    IF kind = "ordered"
    THEN << <<"host", "app.example">> >>
    ELSE << <<"connection", "keep-alive">>, <<"host", "app.example">>,
            <<"proxy-connection", "keep-alive">> >>

InboundParts(kind, n) ==
    [i \in 1..n |-> [request_id |-> InnerId(kind, i, n), headers |-> InnerHeaders(kind)]]

\* The Host header of the inbound batch POST.
InboundHost(b) == IF b = 1 THEN "proxy.example" ELSE "127.0.0.1:8080"

\* The bytes the application server answers the inner request i of the
\* batch POST b with, and the bytes ProxyClientFactory.clientConnectionFailed
\* writes to the transport of its father.
Response(b, i) == <<"HTTP/1.1 200 OK", b, i>>
GatewayError   == <<"HTTP/1.0 501 Gateway error", 0, 0>>

\* BatchProxyResource.getChild: "request.received_headers['x-forwarded-host']
\* = request.received_headers['host']", on the inbound request
getChild(request) ==
    [request EXCEPT !.received_headers =
        Put(@, "x-forwarded-host", request.received_headers["host"])]

\* The inner requests with all the headers they came with.
parse_batch_request_Unfiltered(request) ==
    [i \in 1..Len(request.parts) |->
        [request_id |-> request.parts[i].request_id,
         headers |-> request.parts[i].headers]]

\* BatchProxyResource.parse_batch_request: parser.requests, each without its
\* Connection and Proxy-Connection headers
parse_batch_request(request) ==
    [i \in 1..Len(request.parts) |->
        [request_id |-> request.parts[i].request_id,
         headers |-> SelectSeq(request.parts[i].headers,
                        LAMBDA header : header[1] \notin {"connection", "proxy-connection"})]]

\* One StringTransport for all the BatchRequests at a position.
TransportOf_Shared(b, i) == <<1, i>>

\* BatchRequest.__init__: "self.transport = StringTransport()", a transport
\* of its own for the BatchRequest of the inner request i of the batch POST b
TransportOf(b, i) == <<b, i>>

\* Only the first upstream request is started by render.
Started_First(n) == [i \in 1..n |-> IF i = 1 THEN "connecting" ELSE "new"]

\* render: "deferreds = [r.process() for r in batch_requests]", and
\* BatchRequest.process: reactor.connectTCP for each, which returns at once
Started(n) == [i \in 1..n |-> "connecting"]

\* Only the upstream requests that ended well count.
Fired_NoErrback == {"finished"}

\* The deferred of the client factory has fired: deferred.callback in
\* handleResponseEnd, deferred.errback in clientConnectionFailed
Fired == {"finished", "failed"}

\* The list fires with the first of its deferreds.
GateOpen_FirstFired(up) == up = <<>> \/ \E i \in 1..Len(up) : up[i] \in Fired

\* defer.DeferredList(deferreds, consumeErrors=True): it fires when every
\* deferred of the list has fired, at once for an empty list
GateOpen(up) == \A i \in 1..Len(up) : up[i] \in Fired

\* The parts attached from the last BatchRequest to the first.
AttachOrder_Reversed(n) == [k \in 1..n |-> n + 1 - k]

\* render_batch: "for batch_request, response in zip(requests, results)",
\* the positions in the order of batch_requests
AttachOrder(n) == [k \in 1..n |-> k]

\* The part numbered by its position.
PartId_Position(r, i) == i

\* render_batch: "batch_request.request.request_id"
PartId(r, i) == r.request_id

\* BatchProxyResource.render_batch: a 207 reply with one part for each
\* BatchRequest, the contents of its transport under its request's ID
render_batch(b, requests_, tr) ==
    [code  |-> 207,
     parts |-> [k \in 1..Len(requests_) |->
                  LET i == AttachOrder(Len(requests_))[k]
                  IN  [id |-> PartId(requests_[i], i),
                       payload |-> tr[TransportOf(b, i)]]]]

\* A list that the failure of one of its deferreds leaves unfired.
DeferredList_Unforgiving(b, requests_, up, tr) ==
    IF GateOpen(up) /\ \A i \in 1..Len(up) : up[i] # "failed"
    THEN render_batch(b, requests_, tr)
    ELSE reply[b]

\* "DeferredList(...).addCallback(self.render_batch, batch_requests, request)":
\* what is written to the inbound request of b once the upstream
\* connections are as in up, the transports as in tr
DeferredList(b, requests_, up, tr) ==
    IF GateOpen(up) THEN render_batch(b, requests_, tr) ELSE reply[b]

\* BatchProxyResource.render for the batch POST b (after getChild): a method
\* other than POST is refused; otherwise one BatchRequest for each inner
\* request, each with a new transport, process on each, and the DeferredList
render(b, method, kind, n) ==
    /\ inbound[b] = NoInbound
    /\ LET request == getChild([method |-> method,
                                received_headers |-> [k \in {"host"} |-> InboundHost(b)],
                                parts |-> InboundParts(kind, n)])
           requests_ == parse_batch_request(request)
           tr == [t \in DOMAIN transport |->
                    IF \E i \in 1..n : t = TransportOf(b, i) THEN <<>> ELSE transport[t]]
       IN  /\ inbound' = [inbound EXCEPT ![b] = request]
           /\ IF method # "POST"
              THEN /\ reply' = [reply EXCEPT ![b] = [code |-> 405, parts |-> <<>>]]
                   /\ UNCHANGED <<batch_requests, upstream, transport>>
              ELSE /\ batch_requests' = [batch_requests EXCEPT ![b] = requests_]
                   /\ upstream' = [upstream EXCEPT ![b] = Started(n)]
                   /\ transport' = tr
                   /\ reply' = [reply EXCEPT ![b] =
                                   DeferredList(b, requests_, Started(n), tr)]
    /\ UNCHANGED beyondProxy

\* BatchProxyClientFactory.clientConnectionFailed: the connection could not
\* be made; the error page goes to the transport of the BatchRequest and the
\* deferred fires with the failure
clientConnectionFailed(b, i) ==
    /\ i \in 1..Len(upstream[b])
    /\ upstream[b][i] = "connecting"
    /\ LET up == [upstream[b] EXCEPT ![i] = "failed"]
           tr == [transport EXCEPT ![TransportOf(b, i)] = Append(@, GatewayError)]
       IN  /\ upstream' = [upstream EXCEPT ![b] = up]
           /\ transport' = tr
           /\ reply' = [reply EXCEPT ![b] = DeferredList(b, batch_requests[b], up, tr)]
    /\ UNCHANGED <<inbound, batch_requests>>
    /\ UNCHANGED beyondProxy

\* BatchProxyClientFactory.buildProtocol and BatchProxyClient.connectionMade:
\* the connection is made, ('connection', 'close') is appended to the
\* headers of the inner request and the request is sent
connectionMade(b, i) ==
    /\ i \in 1..Len(upstream[b])
    /\ upstream[b][i] = "connecting"
    /\ upstream' = [upstream EXCEPT ![b][i] = "connected"]
    /\ batch_requests' = [batch_requests EXCEPT ![b][i].headers =
                              Append(@, <<"connection", "close">>)]
    /\ UNCHANGED <<inbound, transport, reply>>
    /\ UNCHANGED beyondProxy

\* The response of the application server arrives: the protocol writes its
\* status line, headers and body to the transport of its father, the
\* BatchRequest
dataReceived(b, i) ==
    /\ i \in 1..Len(upstream[b])
    /\ upstream[b][i] = "connected"
    /\ transport[TransportOf(b, i)] = <<>>
    /\ transport' = [transport EXCEPT ![TransportOf(b, i)] = Append(@, Response(b, i))]
    /\ UNCHANGED <<inbound, batch_requests, upstream, reply>>
    /\ UNCHANGED beyondProxy

\* BatchProxyClient.handleResponseEnd: the response is complete or the
\* connection was lost, with whatever was received; the deferred fires
handleResponseEnd(b, i) ==
    /\ i \in 1..Len(upstream[b])
    /\ upstream[b][i] = "connected"
    /\ LET up == [upstream[b] EXCEPT ![i] = "finished"]
       IN  /\ upstream' = [upstream EXCEPT ![b] = up]
           /\ reply' = [reply EXCEPT ![b] =
                           DeferredList(b, batch_requests[b], up, transport)]
    /\ UNCHANGED <<inbound, batch_requests, transport>>
    /\ UNCHANGED beyondProxy

InitProxy ==
    /\ InitClient
    /\ endpoint = NoEndpoint
    /\ http = PlainHttp
    /\ reqinfo = NoRequest
    /\ given = NoRequest
    /\ submsg = NoMessage
    /\ agentCalls = 0
    /\ subresponse = NoDelivery
    /\ delivered = NoDelivery
    /\ raised = ""
    /\ IdleProcess
    /\ NewProxy
    /\ IdleCodec

NextProxy ==
    \/ \E b \in Batches, method \in {"POST", "GET"}, kind \in InboundKinds,
          n \in 0..MaxRequests : render(b, method, kind, n)
    \/ \E b \in Batches, i \in 1..MaxRequests : clientConnectionFailed(b, i)
    \/ \E b \in Batches, i \in 1..MaxRequests : connectionMade(b, i)
    \/ \E b \in Batches, i \in 1..MaxRequests : dataReceived(b, i)
    \/ \E b \in Batches, i \in 1..MaxRequests : handleResponseEnd(b, i)

SpecProxy == InitProxy /\ [][NextProxy]_vars

\* --------------------------------------------------- the multipart codec
\* A text is the sequence of its characters, a word of this model (a method,
\* a header name, ...) standing for the characters it is written with.
SP    == " "
CR    == "CR"
LF    == "LF"
COLON == ":"
EQ    == "="
Whitespace == {SP, CR, LF}

\* The inner requests given to the codec: with and without headers (written
\* in lower or mixed case, with or without optional space around the
\* value), and bodies that are empty, of one line, of two lines separated by
\* a bare line feed, and with "=", a space before a line end and a last CRLF.
HeaderBlocks ==
    { <<>>,
      << [name |-> "host", value |-> "h", padded |-> FALSE] >>,
      << [name |-> "Host", value |-> "h", padded |-> TRUE],
         [name |-> "Accept-Encoding", value |-> "identity", padded |-> FALSE] >> }

Bodies == { <<>>, <<"body">>, <<"l1", LF, "l2">>, <<"a", EQ, "b", SP, CR, LF>> }

InnerRequests ==
    [method : {"GET", "POST"}, uri : {<<"/a?x", EQ, "1">>}, version : {"HTTP/1.1"},
     headers : HeaderBlocks, body : Bodies]

\* The header lines of a request, as a client writes them.
RECURSIVE HeaderText(_)
HeaderText(hs) ==
    IF hs = <<>> THEN <<>>
    ELSE LET h == hs[1]
         IN  <<h.name, COLON>> \o (IF h.padded THEN <<SP, SP>> ELSE <<SP>>) \o <<h.value>>
               \o (IF h.padded THEN <<SP>> ELSE <<>>) \o <<CR, LF>> \o HeaderText(Tail(hs))

\* An inner request as the string given to HTTPRequestMessage.
RequestText(r) ==
    <<r.method, SP>> \o r.uri \o <<SP, r.version, CR, LF>> \o HeaderText(r.headers)
        \o <<CR, LF>> \o r.body

\* "str(request_id)"
str(n) == <<"str", n>>

\* The position of the first line feed of a text, 0 if it has none.
FirstLF(t) ==
    IF \E i \in 1..Len(t) : t[i] = LF
    THEN CHOOSE i \in 1..Len(t) : t[i] = LF /\ \A j \in 1..(i - 1) : t[j] # LF
    ELSE 0

\* The text has a line end at position i, or ends before it.
AtLineEnd(t, i) ==
    \/ i > Len(t)
    \/ t[i] = LF
    \/ t[i] = CR /\ i < Len(t) /\ t[i + 1] = LF

\* quopri.encode(input, output, quotetabs=False) on text: "=" is quoted, a
\* space before a line end or at the end of the text is quoted, and every
\* line end, CRLF or bare LF, is written as the first line end of the text is
RECURSIVE b2a_qp(_, _, _)
b2a_qp(t, i, crlf) ==
    IF i > Len(t) THEN <<>>
    ELSE IF t[i] = LF
    THEN (IF crlf THEN <<CR, LF>> ELSE <<LF>>) \o b2a_qp(t, i + 1, crlf)
    ELSE IF t[i] = CR /\ i < Len(t) /\ t[i + 1] = LF
    THEN (IF crlf THEN <<CR, LF>> ELSE <<LF>>) \o b2a_qp(t, i + 2, crlf)
    ELSE IF t[i] = EQ
    THEN <<"=3D">> \o b2a_qp(t, i + 1, crlf)
    ELSE IF t[i] = SP /\ AtLineEnd(t, i + 1)
    THEN <<"=20">> \o b2a_qp(t, i + 1, crlf)
    ELSE <<t[i]>> \o b2a_qp(t, i + 1, crlf)

quopri_encode(t) == b2a_qp(t, 1, FirstLF(t) > 1 /\ t[FirstLF(t) - 1] = CR)

\* quopri.decodestring(payload)
quopri_decodestring(t) ==
    [i \in 1..Len(t) |-> CASE t[i] = "=3D" -> EQ
                           [] t[i] = "=20" -> SP
                           [] OTHER        -> t[i]]

\* HTTPRequestMessage.__init__(http_request, request_id)
HTTPRequestMessage(http_request, id) ==
    [ctype |-> "application/http-request", id |-> str(id),
     cte |-> "quoted-printable", payload |-> quopri_encode(http_request)]

\* MultipartHTTPMessage.as_string(): the generator writes each part, its
\* headers and its payload, and a line feed before the boundary line
Written(message) ==
    [k \in 1..Len(message) |->
        [ctype |-> message[k].ctype, id |-> message[k].id, cte |-> message[k].cte,
         body |-> message[k].payload \o <<LF>>]]

\* Parser.parse: the payload of a part is its body without the line end
\* (CRLF, CR or LF) before the boundary line
get_payload(part) ==
    LET t == part.body
        n == Len(t)
    IN  IF n >= 2 /\ t[n - 1] = CR /\ t[n] = LF THEN SubSeq(t, 1, n - 2)
        ELSE IF n >= 1 /\ t[n] \in {CR, LF} THEN SubSeq(t, 1, n - 1)
        ELSE t

\* HTTPParser._parse_subrequest
_parse_subrequest(part) ==
    IF part.cte = "quoted-printable"
    THEN quopri_decodestring(get_payload(part))
    ELSE get_payload(part)

\* request.split("\r\n")
RECURSIVE split(_)
split(t) ==
    IF \E i \in 1..(Len(t) - 1) : t[i] = CR /\ t[i + 1] = LF
    THEN LET i == CHOOSE i \in 1..(Len(t) - 1) :
                    /\ t[i] = CR /\ t[i + 1] = LF
                    /\ \A j \in 1..(i - 1) : ~(t[j] = CR /\ t[j + 1] = LF)
         IN  <<SubSeq(t, 1, i - 1)>> \o split(SubSeq(t, i + 2, Len(t)))
    ELSE <<t>>

\* "\r\n".join(lines)
RECURSIVE join(_)
join(lines) ==
    IF lines = <<>> THEN <<>>
    ELSE IF Len(lines) = 1 THEN lines[1]
    ELSE lines[1] \o <<CR, LF>> \o join(Tail(lines))

\* line.strip()
RECURSIVE strip(_)
strip(l) ==
    IF l = <<>> THEN <<>>
    ELSE IF l[1] \in Whitespace THEN strip(Tail(l))
    ELSE IF l[Len(l)] \in Whitespace THEN strip(SubSeq(l, 1, Len(l) - 1))
    ELSE l

\* request_line.split(): the words between the whitespace of the line
RECURSIVE words(_)
words(l) ==
    IF l = <<>> THEN <<>>
    ELSE IF l[1] \in Whitespace THEN words(Tail(l))
    ELSE LET n == CHOOSE n \in 1..Len(l) :
                    /\ \A j \in 1..n : l[j] \notin Whitespace
                    /\ n = Len(l) \/ l[n + 1] \in Whitespace
         IN  <<SubSeq(l, 1, n)>> \o words(SubSeq(l, n + 1, Len(l)))

\* The number of lines the header loop of HTTPRequest.__init__ takes as
\* header lines: the lines before the first blank one.
RECURSIVE NumHeaderLines(_)
NumHeaderLines(lines) ==
    IF lines = <<>> \/ strip(lines[1]) = <<>> THEN 0
    ELSE 1 + NumHeaderLines(Tail(lines))

\* The header loop of HTTPRequest.__init__: a line that begins with a space
\* continues the header before it.
RECURSIVE Folded(_, _)
Folded(lines, header) ==
    IF lines = <<>> THEN (IF header = <<>> THEN <<>> ELSE <<header>>)
    ELSE IF lines[1][1] = SP
    THEN Folded(Tail(lines), header \o <<LF>> \o lines[1])
    ELSE (IF header = <<>> THEN <<>> ELSE <<header>>) \o Folded(Tail(lines), lines[1])

\* HTTPRequest.process_header: the name in lower case, the value stripped
process_header(line) ==
    LET c == CHOOSE c \in 1..Len(line) : line[c] = COLON /\ \A j \in 1..(c - 1) : line[j] # COLON
    IN  << [j \in 1..(c - 1) |-> Lower(line[j])], strip(SubSeq(line, c + 1, Len(line))) >>

\* HTTPRequest.__init__(request, request_id=request_id)
HTTPRequest(request, id) ==
    LET lines  == split(request)
        parts  == words(lines[1])
        rest   == Tail(lines)
        quirk  == rest # <<>> /\ rest[1] = <<>> /\ parts[1] = <<"POST">>
        after  == IF quirk THEN Tail(rest) ELSE rest
        n      == NumHeaderLines(after)
        header == Folded(SubSeq(after, 1, n), <<>>)
    IN  IF Len(parts) < 3 THEN [error |-> "BadRequestException"]
        ELSE IF after = <<>> THEN [error |-> "IndexError"]
        ELSE IF \E k \in 1..Len(header) : COLON \notin {header[k][j] : j \in 1..Len(header[k])}
        THEN [error |-> "ValueError"]
        ELSE [error |-> "", request_id |-> id, command |-> parts[1],
              request_uri |-> parts[2], version |-> parts[3],
              headers |-> [k \in 1..Len(header) |-> process_header(header[k])],
              data |-> join(SubSeq(after, n + 2, Len(after)))]

\* MultipartHTTPMessage.attach(HTTPRequestMessage(request, id)) for each
\* inner request, then MultipartHTTPMessage.as_string()
as_string ==
    /\ ~wire.written
    /\ wire' = [written |-> TRUE,
                parts |-> Written([k \in 1..Len(inner) |->
                            HTTPRequestMessage(RequestText(inner[k].request),
                                               inner[k].request_id)])]
    /\ UNCHANGED <<inner, parsed>>
    /\ UNCHANGED beyondCodec

\* HTTPParser(message): HTTPParser._parse makes an HTTPRequest of every
\* application/http-request part, with the Multipart-Request-ID of the part;
\* an exception of HTTPRequest leaves the parser
HTTPParser ==
    /\ wire.written
    /\ ~parsed.done
    /\ LET requests_ == [k \in 1..Len(wire.parts) |->
                            HTTPRequest(_parse_subrequest(wire.parts[k]), wire.parts[k].id)]
       IN  parsed' =
             IF \E k \in 1..Len(requests_) : requests_[k].error # ""
             THEN [done |-> TRUE,
                   error |-> requests_[CHOOSE k \in 1..Len(requests_) :
                                /\ requests_[k].error # ""
                                /\ \A j \in 1..(k - 1) : requests_[j].error = ""].error,
                   requests |-> <<>>]
             ELSE [done |-> TRUE, error |-> "", requests |-> requests_]
    /\ UNCHANGED <<inner, wire>>
    /\ UNCHANGED beyondCodec

InitCodec ==
    /\ InitClient
    /\ endpoint = NoEndpoint
    /\ http = PlainHttp
    /\ reqinfo = NoRequest
    /\ given = NoRequest
    /\ submsg = NoMessage
    /\ agentCalls = 0
    /\ subresponse = NoDelivery
    /\ delivered = NoDelivery
    /\ raised = ""
    /\ IdleProcess
    /\ IdleProxy
    /\ \E n \in 0..MaxRequests, kind \in InboundKinds :
          \E rs \in [1..n -> InnerRequests] :
              inner = [i \in 1..n |->
                          [request_id |-> InnerId(kind, i, n), request |-> rs[i]]]
    /\ wire = [written |-> FALSE, parts |-> <<>>]
    /\ parsed = [done |-> FALSE, error |-> "", requests |-> <<>>]

NextCodec == as_string \/ HTTPParser

SpecCodec == InitCodec /\ [][NextCodec]_vars

\* The proxy with the reactor delivering the events of the connections it
\* has begun: as long as a connection is being made or is open, one of them
\* is made, fails or ends, with its response or without. Whether a
\* response arrives on it (dataReceived) and whether a batch POST arrives
\* (render) is left open.
SpecProxyLive ==
    /\ SpecProxy
    /\ WF_vars(\E b \in Batches, i \in 1..MaxRequests :
                  \/ connectionMade(b, i)
                  \/ clientConnectionFailed(b, i)
                  \/ handleResponseEnd(b, i))

Next ==
    \/ batch_request
    \/ \E cb \in Callbacks : batch(cb)
    \/ clear_batch
    \/ complete_batch
    \/ __enter__
    \/ \E exc_info \in ExcInfos : __exit__(exc_info)
    \/ as_message
    \/ post
    \/ request_raises
    \/ \E r \in Responses : handle_response(r)
    \/ decode_response
    \/ \E cb \in Callbacks : decode_response_adding(cb)
    \/ \E cb \in Callbacks : DropCallback(cb)

Spec == Init /\ [][Next]_vars

\* ------------------------------------------------------------------ claims
Range(f) == {f[i] : i \in DOMAIN f}

\* The positions of the batch of the last complete_batch whose callback is alive.
AllAlive(rs) == \A i \in 1..Len(rs) : Alive(rs[i])

\* The step is the collection of callbacks.
Collection ==
    /\ alive' # alive /\ alive' \subseteq alive
    /\ hasBatch /\ hasBatch' /\ result' = result

\* The step is a call of op on the client (and not a step inside
\* complete_batch, nor the collection of a callback).
CallOf(op) == pc = "idle" /\ ~Collection /\ result'.op = op

\* A part that handle_response accepts and that names a subrequest of a batch of n.
GoodPart(part, n) ==
    part.ctype = HttpResponseType /\ part.idhdr = "int" /\ part.rid \in 1..n

\* C1: when every callback of the batch stays alive, the outbound parts carry
\* exactly the IDs 1..N, and every response part with ID i in 1..N is
\* delivered to the callback of the i-th added subrequest, in whatever order
\* the parts come.
C1_IdCorrespondence ==
    LET N == Len(lastBatch)
    IN  (posted /\ AllAlive(lastBatch)) =>
            /\ Len(msg) = N
            /\ Range(msg) = 1..N
            /\ \A k \in 1..Len(invoked) :
                  invoked[k].rid \in 1..N =>
                      /\ invoked[k].idx = invoked[k].rid
                      /\ invoked[k].cb = lastBatch[invoked[k].rid]
            /\ \A p \in 1..Len(response.parts) :
                  (p < partIdx /\ GoodPart(response.parts[p], N)) =>
                      \E k \in 1..Len(invoked) :
                          /\ invoked[k].pos = p
                          /\ invoked[k].idx = response.parts[p].rid

\* C1 witness: two subrequests, the response parts in the order 2, 1, both
\* callbacks called, the second subrequest's first.
C1_Witness ==
    /\ pc = "idle" /\ result.op = "complete_batch" /\ result.exc = "None"
    /\ posted /\ Len(lastBatch) = 2 /\ AllAlive(lastBatch)
    /\ lastBatch[1] # lastBatch[2]
    /\ Len(invoked) = 2
    /\ invoked[1].rid = 2 /\ invoked[1].cb = lastBatch[2]
    /\ invoked[2].rid = 1 /\ invoked[2].cb = lastBatch[1]

\* C2: a subrequest whose callback was dead when complete_batch began is not
\* in the outbound batch, its callback is not called whatever the response
\* holds, and no ReferenceError leaves complete_batch.
C2_DeadCallbackSkipped ==
    /\ \A k \in deadAtStart :
          /\ k \notin Range(msg)
          /\ \A e \in 1..Len(invoked) : invoked[e].idx # k
    /\ Len(msg) <= Len(lastBatch) - Cardinality(deadAtStart)
    /\ result.exc # "ReferenceError"

\* C2 witness: a complete_batch that returned normally after handling a
\* response part addressed to a subrequest whose callback was dead.
C2_Witness ==
    /\ pc = "idle" /\ result.op = "complete_batch" /\ result.exc = "None"
    /\ posted /\ deadAtStart # {}
    /\ \E p \in 1..Len(response.parts) :
          /\ GoodPart(response.parts[p], Len(lastBatch))
          /\ response.parts[p].rid \in deadAtStart

\* Exactly the subrequest at position k was dead when complete_batch began,
\* and the others are alive (so they were when they were rendered).
OnlyDead(k) ==
    /\ posted
    /\ deadAtStart = {k}
    /\ \A i \in 1..Len(lastBatch) : i # k => Alive(lastBatch[i])

\* C3 as stated: with exactly one callback dropped, the N-1 outbound parts
\* are numbered 1..N-1.
C3_DenseIds ==
    \A k \in 1..Len(lastBatch) :
        OnlyDead(k) =>
            /\ Len(msg) = Len(lastBatch) - 1
            /\ Range(msg) = 1..(Len(lastBatch) - 1)

\* C3 amended: with exactly one callback k dropped, there are N-1 outbound
\* parts and their IDs are the insertion positions of the surviving
\* subrequests, 1..N without k.
C3_PositionIds ==
    \A k \in 1..Len(lastBatch) :
        OnlyDead(k) =>
            /\ Len(msg) = Len(lastBatch) - 1
            /\ Range(msg) = (1..Len(lastBatch)) \ {k}

\* C3 witness: two subrequests, the first one dead, the batch posted with
\* the one part of the second.
C3_Witness ==
    /\ Len(lastBatch) = 2
    /\ OnlyDead(1)
    /\ msg = <<2>>

\* C4 as stated: every exit of a complete_batch invoked on an open client
\* leaves the client without a batch.
C4_IdleAfterComplete ==
    (pc = "idle" /\ result.op = "complete_batch" /\ result.why # "NotOpen")
        => ~hasBatch

\* C5: batch_request on a client with an open batch fails with "already
\* open" and leaves the batch and its subrequests as they were; a
\* batch_request succeeds only without an open batch, and an open batch
\* goes away only in complete_batch or clear_batch (called directly, or by
\* __exit__ for a block left by an exception).
C5_SingleOpen ==
    [][ /\ (CallOf("batch_request") /\ hasBatch) =>
               /\ result'.exc = "BatchError"
               /\ result'.why = "AlreadyOpen"
               /\ hasBatch'
               /\ requests' = requests
        /\ (CallOf("batch_request") /\ result'.exc = "None") => ~hasBatch
        /\ (hasBatch /\ ~hasBatch') =>
               result'.op \in {"complete_batch", "clear_batch", "__exit__"}
      ]_vars

\* C5 witness: a failed batch_request on a batch of two subrequests.
C5_Witness ==
    /\ result.op = "batch_request" /\ result.why = "AlreadyOpen"
    /\ hasBatch /\ Len(requests) = 2

\* C6: without an open batch, batch and complete_batch fail with "not open",
\* post nothing, call no callback and leave the client without a batch.
C6_NotOpen ==
    [][ (~hasBatch /\ (CallOf("batch") \/ CallOf("complete_batch"))) =>
            /\ result'.exc = "BatchError"
            /\ result'.why = "NotOpen"
            /\ ~posted'
            /\ invoked' = <<>>
            /\ ~hasBatch'
            /\ pc' = "idle"
      ]_vars

\* C6 witness: a batch call that failed on a client whose batch was completed
\* or cleared before.
C6_Witness ==
    /\ result.op = "batch" /\ result.why = "NotOpen"
    /\ ~hasBatch /\ pc = "idle" /\ ~posted /\ invoked = <<>>

\* C7: complete_batch on an open batch of a client without endpoint fails
\* with "no endpoint"; nothing is rendered, nothing posted, no callback called.
C7_NoEndpoint ==
    /\ [](endpoint = NoEndpoint =>
             /\ pc = "idle" /\ msg = <<>> /\ ~posted /\ invoked = <<>>)
    /\ [][ (hasBatch /\ endpoint = NoEndpoint /\ CallOf("complete_batch")) =>
               /\ result'.exc = "BatchError"
               /\ result'.why = "NoEndpoint"
               /\ pc' = "idle"
         ]_vars

\* C7 witness: the failed complete_batch of a batch with a live subrequest.
C7_Witness ==
    /\ result.op = "complete_batch" /\ result.why = "NoEndpoint"
    /\ endpoint = NoEndpoint
    /\ hasBatch /\ Len(requests) >= 1 /\ AllAlive(requests)

\* The number of subrequests of rs whose callback is in the set live.
LiveCount(rs, live) == Cardinality({i \in 1..Len(rs) : rs[i] \in live})

\* C8: the length of the open batch is the number of its subrequests whose
\* callback is alive; it grows by one with each batch call, and falls by the
\* number of subrequests of a callback when that callback dies.
C8_Length ==
    /\ [](hasBatch => BatchLen(requests) = LiveCount(requests, alive))
    /\ [][ /\ (hasBatch /\ CallOf("batch")) =>
                 BatchLen(requests)' = BatchLen(requests) + 1
           /\ Collection =>
                 BatchLen(requests)' =
                     BatchLen(requests) - LiveCount(requests, alive \ alive')
         ]_vars

\* C8 witness: two subrequests, one callback kept and the other dead: the
\* length is 1.
C8_Witness ==
    /\ hasBatch /\ Len(requests) = 2
    /\ LiveCount(requests, alive) = 1
    /\ BatchLen(requests) = 1

\* C9 as stated: a POST is never made with zero parts.
C9_NoEmptyPost == posted => Len(msg) > 0

\* C10: a batch response with a status other than 207 makes complete_batch
\* fail with NonBatchResponseError with that status and reason, and no
\* callback is called.
C10_NonBatchResponse ==
    (response # NoResponse /\ response.status # BATCH_STATUS) =>
        /\ pc = "idle"
        /\ result.op = "complete_batch"
        /\ result.exc = "NonBatchResponseError"
        /\ result.status = response.status
        /\ result.reason = response.reason
        /\ invoked = <<>>

\* C10 witness: a 500 response with parts to a batch of two live subrequests.
C10_Witness ==
    /\ result.exc = "NonBatchResponseError" /\ result.status = 500
    /\ Len(lastBatch) = 2 /\ AllAlive(lastBatch)
    /\ response.parts # <<>>
    /\ GoodPart(response.parts[1], 2)

\* complete_batch ended because the batch response could not be parsed: the
\* body is not multipart, or a part has a wrong content type or a missing or
\* non-integer Multipart-Request-ID.
ParseFailed ==
    /\ pc = "idle"
    /\ result.op = "complete_batch"
    /\ \/ /\ result.exc = "BatchError"
          /\ result.why \in {"NotMultipart", "BadPartType", "InvalidRequestId"}
       \/ result.exc = "TypeError"

\* C11 as stated: when the parsing of the 207 response fails at any part, no
\* callback has been called, the callbacks of the well-formed parts before
\* the bad one included.
C11_ParseFailureNoCallback == ParseFailed => invoked = <<>>

\* The number of calls made to the callback of the subrequest at position i.
Calls(i) == Cardinality({k \in 1..Len(invoked) : invoked[k].idx = i})

Last(s) == s[Len(s)]

C13_ResponseOrder ==
    \A k \in 1..Len(invoked) :
        /\ invoked[k].pos \in 1..Len(response.parts)
        /\ invoked[k].rid = response.parts[invoked[k].pos].rid
        /\ \A j \in 1..(k - 1) : invoked[j].pos < invoked[k].pos

\* C13 witness: the response names the second subrequest in its first part
\* and the first subrequest in its second part, and the callbacks were
\* called in that order, against the order of addition.
C13_Witness ==
    /\ pc = "idle" /\ result.exc = "None" /\ Len(lastBatch) = 2
    /\ Len(response.parts) = 2
    /\ response.parts[1].rid = 2 /\ response.parts[2].rid = 1
    /\ Len(invoked) = 2
    /\ invoked[1].idx = 2 /\ invoked[1].pos = 1
    /\ invoked[2].idx = 1 /\ invoked[2].pos = 2

\* C14 as stated: within one complete_batch the callback of a subrequest is
\* called at most once; and when complete_batch returns, a subrequest that
\* was in the outbound batch has been dispatched exactly once, or not at all
\* because its callback is dead.
C14_ConsumedOnce ==
    /\ \A i \in 1..Len(lastBatch) : Calls(i) <= 1
    /\ (pc = "idle" /\ result.op = "complete_batch" /\ result.exc = "None" /\ posted) =>
           \A i \in Range(msg) :
               \/ Calls(i) = 1
               \/ Calls(i) = 0 /\ ~Alive(lastBatch[i])

\* C15 as stated: once complete_batch has begun to build the outbound body,
\* no subrequest is added to the batch: while complete_batch runs, the
\* subrequest list is the one it began with.
C15_SealedNeverGrows == pc # "idle" => requests = lastBatch

\* C16: batch_request on a client without a batch opens one; __enter__ on
\* the open batch returns it and changes nothing; __exit__ for a block left
\* by an exception discards the batch, posts nothing, calls no callback,
\* leaves the client without a batch and lets the exception go on; an
\* __exit__ that takes this path is never the exit of a block that ended
\* normally, which is a complete_batch.
C16_WithStatement ==
    [][ /\ (CallOf("batch_request") /\ ~hasBatch) =>
               /\ result'.exc = "None"
               /\ hasBatch'
               /\ requests' = <<>>
        /\ (CallOf("__enter__") /\ hasBatch) =>
               /\ result'.exc = "None"
               /\ hasBatch'
               /\ requests' = requests
        /\ CallOf("__exit__") =>
               /\ result'.exc = SomeException[1]
               /\ ~posted'
               /\ invoked' = <<>>
               /\ ~hasBatch'
               /\ requests' = <<>>
               /\ pc' = "idle"
      ]_vars

\* C16 witness: the exit by an exception of a block that had added a
\* subrequest: the batch was deleted, nothing posted, no callback called.
C16_Witness ==
    /\ result.op = "__exit__" /\ result.exc = SomeException[1]
    /\ result.why = "Deleted" /\ created >= 1
    /\ ~hasBatch /\ ~posted /\ invoked = <<>> /\ pc = "idle"

\* C17: clear_batch posts nothing, calls no callback, raises nothing and
\* leaves the client without a batch, whether one was open or not; the
\* subrequest list of a client without a batch is empty and a new batch
\* starts empty, and every callback that is called belongs to a subrequest
\* of the batch held at that moment: the callbacks of a discarded batch are
\* never called, not by a later complete_batch either.
C17_ClearDiscards ==
    /\ [](~hasBatch => requests = <<>>)
    /\ [][ /\ CallOf("clear_batch") =>
                 /\ result'.exc = "None"
                 /\ ~posted'
                 /\ invoked' = <<>>
                 /\ ~hasBatch'
                 /\ requests' = <<>>
                 /\ pc' = "idle"
           /\ (CallOf("batch_request") /\ result'.exc = "None") => requests' = <<>>
           /\ (invoked' # invoked /\ invoked' # <<>>) =>
                 /\ hasBatch
                 /\ Last(invoked').idx \in 1..Len(requests)
                 /\ Last(invoked').cb = requests[Last(invoked').idx]
         ]_vars

\* C17 witness: a clear_batch that deleted a batch with a subrequest.
C17_Witness ==
    /\ result.op = "clear_batch" /\ result.why = "Deleted" /\ created >= 1
    /\ ~hasBatch /\ requests = <<>> /\ ~posted /\ invoked = <<>>

\* C18 as stated: the mapping the caller passed to batch (URI, headers,
\* body) stays equal to what it was when the Request was made; as_message
\* does not write the forced headers into the caller's headers.
C18_SpecImmutable == reqinfo = given

\* C19: with a cache in the agent, a 304 subresponse for a URI with a cache
\* entry reaches the callback as status 200 with the cached body, and the
\* callback is never called with status 304.
C19_NotModifiedFromCache ==
    delivered # NoDelivery =>
        /\ (subresponse.status = NOT_MODIFIED /\ http.cache \in {"stale", "fresh"}) =>
               /\ delivered.status = 200
               /\ delivered.body = CachedBody
        /\ http.cache # NoCache => delivered.status # NOT_MODIFIED

\* C19 witness: a 304 subresponse decoded with a cache entry to validate;
\* the callback got 200 and the cached body.
C19_Witness ==
    /\ http.cache = "stale"
    /\ subresponse.status = NOT_MODIFIED /\ subresponse.body = ""
    /\ delivered = [status |-> 200, body |-> CachedBody]

\* C20 as stated: without cache and authorizations, as_message makes no call
\* of the agent and the message carries the caller's body and the caller's
\* headers, except that every Host header of the message has the authority
\* of the URI and every Accept-Encoding header has "identity", whatever the
\* caller gave for these two (header names taken without regard to case).
C20_CacheBypass ==
    (~UsesAgent(http) /\ submsg # NoMessage /\ delivered = NoDelivery) =>
        /\ agentCalls = 0
        /\ submsg.body = (IF given.body = None THEN "" ELSE given.body)
        /\ \E k \in DOMAIN submsg.headers : Lower(k) = "host"
        /\ \E k \in DOMAIN submsg.headers : Lower(k) = "accept-encoding"
        /\ \A k \in DOMAIN submsg.headers :
              CASE Lower(k) = "host" -> submsg.headers[k] = Authority(given.uri)
                [] Lower(k) = "accept-encoding" -> submsg.headers[k] = "identity"
                [] OTHER -> /\ k \in DOMAIN given.headers
                            /\ submsg.headers[k] = given.headers[k]
        /\ \A k \in DOMAIN given.headers :
              Lower(k) \notin {"host", "accept-encoding"} =>
                  k \in DOMAIN submsg.headers

\* A part that handle_response must refuse: a content type other than
\* application/http-response, no Multipart-Request-ID header, or a
\* Multipart-Request-ID that is not an integer literal.
BadPart(part) ==
    \/ part.ctype # HttpResponseType
    \/ part.idhdr \in {"missing", "invalid"}

\* The loop of handle_response was left at the part at partIdx.
StoppedAtPart ==
    /\ pc = "idle"
    /\ result.op = "complete_batch"
    /\ IsBatchStatus(response.status)
    /\ response.multipart
    /\ partIdx \in 1..Len(response.parts)

\* C30 as stated: a part of the 207 response with a content type other than
\* application/http-response, or with no Multipart-Request-ID header, or with
\* a Multipart-Request-ID that is not an integer, makes complete_batch fail
\* with a BatchError, in each of the three cases.
C30_BadPartIsBatchError ==
    (StoppedAtPart /\ BadPart(PartAt(response, partIdx))) =>
        result.exc = "BatchError"

\* C21: the batch POST always goes to the path /batch-processor at the root
\* of the host named by the endpoint, with the scheme of the endpoint and
\* without its path and query, whatever path the endpoint URL carries.
C21_FixedPath ==
    processed = "POST" =>
        batch_url = Url(process_endpoint.scheme, process_endpoint.netloc, TRUE,
                        <<"batch-processor">>, "")

\* The POST was made for an endpoint whose path is a directory other than
\* the root.
C21_Witness ==
    /\ processed = "POST"
    /\ process_endpoint.path = <<"a", "">>
    /\ process_endpoint.query = "x=1"
    /\ batch_url.netloc = process_endpoint.netloc

\* ------------------------------------------------------- claims, proxy
\* The batch POST b was accepted: render went on to its inner requests.
Accepted(b) == inbound[b] # NoInbound /\ inbound[b].method = "POST"

\* The upstream request of the inner request i of b has ended, well or not.
Ended(b, i) == upstream[b][i] \in {"finished", "failed"}

\* The number of inner requests of the batch POST b.
Inner(b) == Len(inbound[b].parts)

\* C22: for a batch POST with N inner requests, nothing of the 207 reply is
\* written until every one of the N upstream requests has ended, well or
\* not, in whatever order they end.
C22_GateAfterLast ==
    \A b \in Batches :
        reply[b] # NoReply =>
            /\ Len(upstream[b]) = Inner(b) \/ inbound[b].method # "POST"
            /\ \A i \in 1..Len(upstream[b]) : Ended(b, i)

\* A batch of two inner requests was answered, one of its upstream requests
\* having failed and the other ended; the other batch is still waiting.
C22_Witness ==
    /\ reply[1].code = 207
    /\ Len(upstream[1]) = 2
    /\ upstream[1][1] = "finished"
    /\ upstream[1][2] = "failed"
    /\ Len(upstream[2]) = 2
    /\ upstream[2][2] = "finished"
    /\ upstream[2][1] = "connecting"
    /\ reply[2] = NoReply

\* C23: the parts of the 207 reply are in the order of the inner requests of
\* the inbound batch, whatever the order in which the upstream requests
\* ended: the payload of the k-th part is what was buffered for the upstream
\* request of the k-th inner request, and a response in it is the response
\* to that request.
C23_PartsInOrder ==
    \A b \in Batches :
        reply[b].code = 207 =>
            /\ Len(reply[b].parts) = Inner(b)
            /\ \A k \in 1..Len(reply[b].parts) :
                  /\ reply[b].parts[k].payload = transport[<<b, k>>]
                  /\ reply[b].parts[k].payload \in
                        {<<>>, <<Response(b, k)>>, <<GatewayError>>}

\* A reply of two parts whose payloads differ: the first upstream request
\* failed, the second was answered.
C23_Witness ==
    /\ reply[2].code = 207
    /\ Len(reply[2].parts) = 2
    /\ reply[2].parts[1].payload = <<GatewayError>>
    /\ reply[2].parts[2].payload = <<Response(2, 2)>>

\* C24: every part of the reply carries the Multipart-Request-ID of the
\* inner request that triggered it, for IDs that are contiguous and in
\* order and for IDs that are neither.
C24_SameRequestId ==
    \A b \in Batches :
        reply[b].code = 207 =>
            \A k \in 1..Len(reply[b].parts), i \in 1..Inner(b) :
                (k = i \/ Response(b, i) \in Range(reply[b].parts[k].payload)) =>
                    reply[b].parts[k].id = inbound[b].parts[i].request_id

\* A reply to a batch whose IDs are not contiguous and not in order.
C24_Witness ==
    /\ reply[1].code = 207
    /\ Len(reply[1].parts) = 2
    /\ inbound[1].parts[1].request_id = 5
    /\ inbound[1].parts[2].request_id = 3
    /\ reply[1].parts[2].payload = <<Response(1, 2)>>

\* C25: the failure of any of the upstream requests of a batch (a connection
\* that could not be made, or was lost) does not fail the reply: once all
\* have ended the proxy has answered 207 with exactly one part for each
\* inner request, the failed ones with what was buffered for them, the
\* others with what their upstream request received.
C25_FailuresContained ==
    \A b \in Batches :
        (Accepted(b) /\ \A i \in 1..Len(upstream[b]) : Ended(b, i)) =>
            /\ reply[b].code = 207
            /\ Len(reply[b].parts) = Inner(b)
            /\ \A k \in 1..Len(reply[b].parts) :
                  /\ reply[b].parts[k].payload = transport[<<b, k>>]
                  /\ upstream[b][k] = "finished" =>
                        reply[b].parts[k].payload \in {<<>>, <<Response(b, k)>>}

\* A batch of two: one connection failed, one was lost before any byte of
\* the response; and a batch of which every upstream request failed.
C25_Witness ==
    /\ reply[1].code = 207
    /\ Len(reply[1].parts) = 2
    /\ upstream[1][1] = "failed"
    /\ upstream[1][2] = "finished"
    /\ reply[1].parts[2].payload = <<>>
    /\ reply[2].code = 207
    /\ Len(reply[2].parts) = 2
    /\ \A i \in 1..2 : upstream[2][i] = "failed"

\* The inner request i of b has been sent to the application server.
Forwarded(b, i) == upstream[b][i] \in {"connected", "finished"}

\* C26 as stated: every inner request of a batch is forwarded with an
\* X-Forwarded-Host header whose value is the Host header of the inbound
\* batch POST.
C26_ForwardedHost ==
    \A b \in Batches :
        \A i \in 1..Len(upstream[b]) :
            Forwarded(b, i) =>
                <<"x-forwarded-host", inbound[b].received_headers["host"]>>
                    \in Range(batch_requests[b][i].headers)

\* The connection of the inner request i of b has been initiated.
Initiated(b, i) == i \in 1..Len(upstream[b]) /\ upstream[b][i] # "new"

\* C27: within one batch the upstream requests proceed in parallel: the
\* connection of an inner request is initiated in the step that initiates
\* the connections of all the inner requests of its batch, before any
\* upstream request of the batch has ended.
C27_AllInitiatedAtOnce ==
    [][\A b \in Batches :
          \A i \in 1..Len(upstream'[b]) :
              (Initiated(b, i)' /\ ~Initiated(b, i)) =>
                  /\ upstream[b] = <<>>
                  /\ \A j \in 1..Len(upstream'[b]) : upstream'[b][j] = "connecting"
                  /\ Len(upstream'[b]) = Inner(b)']_vars

\* A batch of two whose second upstream request has ended while the first
\* is still connecting.
C27_Witness ==
    /\ Len(upstream[1]) = 2
    /\ upstream[1][1] = "connecting"
    /\ upstream[1][2] = "finished"
    /\ transport[<<1, 2>>] = <<Response(1, 2)>>

\* What the proxy holds for the batch POST b.
StateOf(b) ==
    <<inbound[b], batch_requests[b], upstream[b], reply[b],
      [i \in 1..MaxRequests |-> transport[<<b, i>>]]>>

\* C28: batch POSTs in flight at once share no mutable state: every step
\* changes what the proxy holds for one batch only, each reply has only
\* bytes produced for the upstream requests of its own batch, and a batch
\* is answered exactly when all of its own upstream requests have ended.
C28_NoSharedState ==
    /\ [](\A b \in Batches :
            /\ \A i \in 1..MaxRequests :
                  Range(transport[<<b, i>>]) \subseteq {Response(b, i), GatewayError}
            /\ reply[b].code = 207 =>
                  \A k \in 1..Len(reply[b].parts) :
                      Range(reply[b].parts[k].payload) \subseteq
                          {Response(b, k), GatewayError}
            /\ Accepted(b) =>
                  (reply[b].code = 207 <=> \A i \in 1..Len(upstream[b]) : Ended(b, i)))
    /\ [][\E b \in Batches :
              \A c \in Batches \ {b} : StateOf(c)' = StateOf(c)]_vars

\* Two batches in flight with interleaved upstream requests: one answered
\* with the response of its upstream request while the other, begun
\* earlier or later, has received a response and is still waiting.
C28_Witness ==
    /\ reply[1].code = 207
    /\ Len(reply[1].parts) = 2
    /\ reply[1].parts[1].payload = <<Response(1, 1)>>
    /\ Len(upstream[2]) = 2
    /\ upstream[2][1] = "connected"
    /\ transport[<<2, 1>>] = <<Response(2, 1)>>
    /\ upstream[2][2] = "failed"
    /\ reply[2] = NoReply

\* ------------------------------------------------------- claims, codec
\* What decoding has to give for the inner request x with the body as b:
\* its ID, its request line, its headers with their names in lower case,
\* and b.
Decoded(x, b) ==
    [error |-> "", request_id |-> str(x.request_id),
     command |-> <<x.request.method>>, request_uri |-> x.request.uri,
     version |-> <<x.request.version>>,
     headers |-> [k \in 1..Len(x.request.headers) |->
                    << <<Lower(x.request.headers[k].name)>>,
                       <<x.request.headers[k].value>> >>],
     data |-> b]

\* C29 as stated: for any list of inner requests, encoding it as a multipart
\* message of application/http-request parts and decoding the result gives
\* as many requests, in the same order, with the same Multipart-Request-IDs,
\* the same request line, the same headers (but for the case of their
\* names) and the same body.
C29_RoundTrip ==
    parsed.done =>
        /\ parsed.error = ""
        /\ Len(parsed.requests) = Len(inner)
        /\ \A k \in 1..Len(parsed.requests) :
              parsed.requests[k] = Decoded(inner[k], inner[k].request.body)

\* ---------------------------------------------- claims, further cases
\* The step is a turn of handle_response's loop: the loop goes on to the
\* next part or is left.
LoopTurn == pc = "dispatch" /\ (partIdx' # partIdx \/ pc' # pc)

\* C32: a response part for a subrequest whose callback is dead when the
\* part is dispatched (it may have been alive when the outbound batch was
\* built) is passed over in silence: the callback is not invoked, no
\* exception leaves the loop and the loop goes on to the next part; a part
\* for a live callback is dispatched to it on its turn.
C32_LateDeathSkipped ==
    [][LoopTurn =>
          LET part == response.parts[partIdx]
          IN  GoodPart(part, Len(requests)) =>
                  IF requests[part.rid] \in alive
                  THEN /\ Len(invoked') = Len(invoked) + 1
                       /\ invoked'[Len(invoked')].pos = partIdx
                       /\ invoked'[Len(invoked')].cb = requests[part.rid]
                  ELSE /\ invoked' = invoked
                       /\ partIdx' = partIdx + 1
                       /\ result'.exc \in {"pending", "None"}
                       /\ partIdx < Len(response.parts) => pc' = "dispatch"]_vars

\* A batch of two was sent with both parts; the callback of the first died
\* before the response was dispatched: complete_batch returned normally
\* having called the callback of the second part only.
C32_Witness ==
    /\ pc = "idle" /\ result.op = "complete_batch" /\ result.exc = "None"
    /\ msg = <<1, 2>>
    /\ Len(response.parts) = 2
    /\ response.parts[1] = Part(HttpResponseType, "int", 1)
    /\ response.parts[2] = Part(HttpResponseType, "int", 2)
    /\ Len(invoked) = 1
    /\ invoked[1].pos = 2
    /\ invoked[1].cb = lastBatch[2]

\* C33: a callback is invoked only in a turn of handle_response's loop, that
\* is inside complete_batch and after the batch POST has returned the whole
\* 207 multipart response: never in batch_request, batch or clear_batch,
\* never while the batch is built or posted, never after complete_batch
\* has returned.
C33_CallbacksInsideComplete ==
    /\ [](invoked # <<>> =>
            /\ posted
            /\ IsBatchStatus(response.status)
            /\ response.multipart
            /\ result.op = "complete_batch")
    /\ [][(invoked' # invoked /\ invoked' # <<>>) =>
            /\ pc = "dispatch"
            /\ posted
            /\ response' = response
            /\ Len(invoked') = Len(invoked) + 1
            /\ invoked'[Len(invoked')].pos = partIdx]_vars

\* Both callbacks of a batch of two were called, in one complete_batch that
\* has returned.
C33_Witness ==
    /\ pc = "idle" /\ result.op = "complete_batch" /\ result.exc = "None"
    /\ posted
    /\ Len(invoked) = 2
    /\ invoked[1].pos = 1
    /\ invoked[2].pos = 2
    /\ invoked[1].cb # invoked[2].cb

\* C37: the Multipart-Request-ID of every part of the outbound batch is the
\* 1-based insertion position of the subrequest that emitted it, the
\* subrequests whose callbacks are dead being counted: construct's
\* request_id is the position of its loop, a part is emitted only for a
\* live callback and under that position, and requests[ID - 1] is the
\* subrequest that emitted the part.
C37_IdIsInsertionPosition ==
    /\ [](/\ pc = "construct" => request_id = iter
          /\ \A k \in 1..Len(msg) :
                /\ msg[k] \in 1..Len(lastBatch)
                /\ msg[k] \notin deadAtStart
                /\ Lookup(msg[k], Len(lastBatch)) = msg[k]
                /\ k > 1 => msg[k - 1] < msg[k])
    /\ [][(msg' # msg /\ msg' # <<>>) =>
            /\ pc = "construct"
            /\ requests[iter] \in alive
            /\ msg' = Append(msg, iter)
            /\ Lookup(msg'[Len(msg')], Len(requests)) = iter]_vars

\* Of a batch of two the first callback died before complete_batch and the
\* second after its part was built: the one part sent has the ID 2 and its
\* response part finds no live callback.
C37_Witness ==
    /\ pc = "idle" /\ result.op = "complete_batch" /\ result.exc = "None"
    /\ Len(lastBatch) = 2
    /\ deadAtStart = {1}
    /\ msg = <<2>>
    /\ Len(response.parts) = 1
    /\ response.parts[1] = Part(HttpResponseType, "int", 2)
    /\ invoked = <<>>

\* C38 as stated: a callback is invoked only for a response part whose
\* Multipart-Request-ID is the ID of the callback's subrequest, a number
\* from 1 to the number of subrequests; a part with the ID 0, a negative ID
\* or an ID beyond the last subrequest invokes no callback.
C38_OnlyOwnId ==
    \A k \in 1..Len(invoked) :
        /\ invoked[k].rid >= 1
        /\ invoked[k].idx = invoked[k].rid

\* C40: a ReferenceError raised by a live callback is taken for the signal
\* of a dead one: complete_batch passes it over, goes on to dispatch the
\* parts that remain and, the loop done, returns normally.
C40_CallbackReferenceErrorSwallowed ==
    [][(/\ pc = "dispatch"
        /\ Len(invoked') = Len(invoked) + 1
        /\ invoked'[Len(invoked')].outcome = "raise ReferenceError") =>
            /\ invoked'[Len(invoked')].cb \in alive
            /\ partIdx' = partIdx + 1
            /\ IF partIdx < Len(response.parts)
               THEN pc' = "dispatch" /\ result' = result /\ hasBatch'
               ELSE pc' = "idle" /\ result'.op = "complete_batch"
                                 /\ result'.exc = "None"]_vars

\* The callback of the first part raised ReferenceError, the callback of
\* the second part was called after it and complete_batch returned.
C40_Witness ==
    /\ pc = "idle" /\ result.op = "complete_batch" /\ result.exc = "None"
    /\ Len(invoked) = 2
    /\ invoked[1].outcome = "raise ReferenceError"
    /\ invoked[1].pos = 1
    /\ invoked[2].outcome = "return"
    /\ invoked[2].pos = 2

\* C35 as stated: a 207 response whose application/http-response part is
\* nested in an inner multipart part is walked down to that leaf, which is
\* dispatched to the callback of its subrequest as a top-level part is: once
\* the loop of handle_response has taken the nested part, the live callback
\* of the leaf's subrequest has been invoked for it.
C35_NestedPartsDispatched ==
    \A p \in 1..Len(response.parts) :
        (/\ pc = "idle" /\ result.op = "complete_batch"
         /\ IsBatchStatus(response.status) /\ response.multipart
         /\ p <= partIdx
         /\ response.parts[p] = NestedPart
         /\ AllAlive(lastBatch)) =>
            \E k \in 1..Len(invoked) :
                invoked[k].pos = p /\ invoked[k].idx = NestedPart.rid

\* decode_response was given a part that cannot be decoded: its payload is
\* empty, or its status line has no status code or one that is no number.
Undecodable == subresponse # NoDelivery /\ subresponse.status = 0

\* C31 as stated: a response part that cannot be decoded (an empty payload,
\* a status line without a numeric status code) makes decode_response fail
\* with a BatchError and with no other exception.
C31_UndecodableIsBatchError ==
    Undecodable => raised = "BatchError"

\* C39: the agent's connection table is the same object before and after
\* every _update_headers_from_cache and every _update_response_from_cache,
\* whether the agent's http.request returned, was stopped at the capturing
\* connection or raised: no step leaves the capturing or the handing-off
\* table in place.
C39_ConnectionsRestored ==
    /\ [](http.connections = "real")
    /\ [][http'.connections = http.connections]_vars

\* With a cache in the agent, as_message went through the capturing table
\* and returned, and decode_response was left by an exception of the
\* agent's http.request under the handing-off table.
C39_Witness ==
    /\ UsesAgent(http)
    /\ submsg # NoMessage
    /\ agentCalls = 2
    /\ raised = "AgentError"
    /\ delivered = NoDelivery

\* The headers of the sequence hs with the name given.
Named(hs, name) == {k \in 1..Len(hs) : hs[k][1] = name}

\* C36: the headers sent upstream for an inner request have none of the
\* Connection and Proxy-Connection headers the inner request came with, and
\* exactly one 'connection: close', added after the others, which are as
\* they came; and no upstream connection of a batch is open any more when
\* the batch is answered: each was closed at the end of its response, or
\* never made.
C36_HopByHopReplaced ==
    \A b \in Batches :
        /\ \A i \in 1..Len(upstream[b]) :
              Forwarded(b, i) =>
                  LET sent == batch_requests[b][i].headers
                      came == inbound[b].parts[i].headers
                  IN  /\ Named(sent, "proxy-connection") = {}
                      /\ Named(sent, "connection") = {Len(sent)}
                      /\ sent[Len(sent)] = <<"connection", "close">>
                      /\ SubSeq(sent, 1, Len(sent) - 1) =
                            SelectSeq(came, LAMBDA h :
                                h[1] \notin {"connection", "proxy-connection"})
        /\ reply[b].code = 207 =>
              \A i \in 1..Len(upstream[b]) : upstream[b][i] # "connected"

\* An inner request that came with 'connection: keep-alive' and
\* 'proxy-connection: keep-alive' was sent upstream with its Host header
\* and 'connection: close', answered and its connection closed.
C36_Witness ==
    /\ Len(upstream[2]) = 1
    /\ upstream[2][1] = "finished"
    /\ <<"connection", "keep-alive">> \in Range(inbound[2].parts[1].headers)
    /\ <<"proxy-connection", "keep-alive">> \in Range(inbound[2].parts[1].headers)
    /\ batch_requests[2][1].headers =
          << <<"host", "app.example">>, <<"connection", "close">> >>
    /\ transport[<<2, 1>>] = <<Response(2, 1)>>
    /\ reply[2].code = 207

\* C34: every batch POST the proxy accepted is answered, given that each of
\* its upstream requests ends, well or not: the proxy writes a 207 reply
\* for it, and writes it once. A batch that was accepted stays accepted and
\* a reply that was written is changed by no later step, so that every
\* accepted batch is answered exactly when, from some point on, every
\* accepted batch has its 207 reply.
C34_AnsweredOnce ==
    /\ <>[](\A b \in Batches : Accepted(b) => reply[b].code = 207)
    /\ [][\A b \in Batches :
              /\ Accepted(b) => Accepted(b)'
              /\ reply[b] # NoReply => reply'[b] = reply[b]]_vars

\* Both batch POSTs are answered, one after two responses, the other after
\* the failure of its only upstream connection.
C34_Witness ==
    /\ reply[1].code = 207
    /\ upstream[1] = <<"finished", "finished">>
    /\ transport[<<1, 1>>] = <<Response(1, 1)>>
    /\ transport[<<1, 2>>] = <<Response(1, 2)>>
    /\ reply[2].code = 207
    /\ upstream[2] = <<"failed">>
====
